---- MODULE Spec2Model ----
(***************************************************************************)
(* doc_rephraser.py: a batch job that rewrites every paragraph of the      *)
(* .docx files of ./input with a paraphrase produced by an external model  *)
(* and saves the result under ./output.                                    *)
(*                                                                         *)
(* Text is a sequence of one-character strings, a word list a sequence of  *)
(* texts, a file name the sequence of its dot-separated segments           *)
(* ("a.b.docx" is <<"a","b","docx">>, ".a.docx" is <<"","a","docx">>).     *)
(* An optional (None-able) attribute is <<>> for None and <<v>> for v.     *)
(*                                                                         *)
(* Left out: the copy of the named styles and of the section geometry, the  *)
(* pause after each paragraph, and the printed log. An exception is one of *)
(* class Exception (what the except clauses catch).                        *)
(***************************************************************************)
EXTENDS Integers, Sequences, FiniteSets, TLC

\* ------------------------------------------------------------ bounds
MaxRuns    == 2   \* runs of a paragraph in the paragraph-level inputs
MaxTextLen == 4   \* characters of a paragraph (all its runs together)
MaxRespLen == 4   \* characters of a text the external model returns
MaxParas   == 3   \* paragraphs of a document in the file-level inputs
MaxFiles   == 3   \* files of the input directory
MaxClock   == 1   \* seconds the wall clock may advance

VARIABLES
    env,          \* the process environment: venv, packages, directories, platform
    fs,           \* the input directory: file name -> content
    pc,           \* position of process_documents
    rephraser,    \* the model handle: the replies the external model may give
    input_files,  \* process_documents: the enumerated paths
    idx,          \* process_documents: files of input_files already processed
    successful,   \* process_documents: counter
    failed,       \* process_documents: counter
    calls,        \* history: paths process_documents passed to process_file
    returns,      \* history: what each of those calls returned
    fpc,          \* position of process_file (or of a direct rephrase_text call)
    path,         \* process_file: input_file_path
    opened,       \* history: paths handed to Document(...)
    paragraphs,   \* process_file: the non-blank paragraphs of the source
    pidx,         \* process_file: paragraphs already processed
    new_doc,      \* process_file: the paragraphs of the output document so far
    result,       \* process_file: its return value (<<>> while none)
    saved,        \* the output directory: saves in order, [path, doc]
    save_ok,      \* history: whether new_doc.save(...) of the last call went through
    clock,        \* datetime.now(), in seconds
    text,         \* rephrase_text: its last argument
    reply,        \* history: what the external model did on the last call (<<>>: not called)
    rephrased,    \* rephrase_text: its last return value
    escaped,      \* history: an exception left the last rephrase_text call
    invoked       \* history: number of calls made to the external model

vars == << env, fs, pc, rephraser, input_files, idx, successful, failed, calls,
           returns, fpc, path, opened, paragraphs, pidx, new_doc, result, saved,
           save_ok, clock, text, reply, rephrased, escaped, invoked >>

driverVars == << pc, input_files, idx, successful, failed, calls, returns >>
fileVars   == << path, opened, paragraphs, pidx, new_doc, result, saved, save_ok, clock >>
callVars   == << text, reply, rephrased, escaped, invoked >>

None == <<>>
Some(v) == <<v>>
Min(a, b) == IF a < b THEN a ELSE b

\* ------------------------------------------------------------ str
Space == " "
Chars == {"a", Space}

Texts(n) == UNION {[1..k -> Chars] : k \in 0..n}

RECURSIVE LStrip(_)
LStrip(s) ==
    IF s = <<>> THEN s
    ELSE IF s[1] = Space THEN LStrip(Tail(s)) ELSE s

RECURSIVE RStrip(_)
RStrip(s) ==
    IF s = <<>> THEN s
    ELSE IF s[Len(s)] = Space THEN RStrip(SubSeq(s, 1, Len(s) - 1)) ELSE s

\* str.strip()
Strip(s) == RStrip(LStrip(s))

RECURSIVE SplitAcc(_, _, _)
SplitAcc(s, word, out) ==
    LET closed == IF word = <<>> THEN out ELSE Append(out, word)
    IN  IF s = <<>> THEN closed
        ELSE IF s[1] = Space THEN SplitAcc(Tail(s), <<>>, closed)
        ELSE SplitAcc(Tail(s), Append(word, s[1]), out)

\* str.split(): the maximal runs of non-whitespace characters
Split(s) == SplitAcc(s, <<>>, <<>>)

RECURSIVE Join(_)
\* ' '.join(words)
Join(words) ==
    IF words = <<>> THEN <<>>
    ELSE IF Len(words) = 1 THEN words[1]
    ELSE words[1] \o <<Space>> \o Join(Tail(words))

\* words[a:b] for 0 <= a <= b, clipped to the list as a Python slice is
Slice(words, a, b) == SubSeq(words, a + 1, Min(b, Len(words)))

RECURSIVE Concat(_)
Concat(ss) == IF ss = <<>> THEN <<>> ELSE ss[1] \o Concat(Tail(ss))

\* ------------------------------------------------------------ file names
Lower(seg) == IF seg = "DOCX" THEN "docx" ELSE seg

\* os.path.splitext(name)[1] is non-empty: a dot with a non-dot character before it
HasExt(name) == Len(name) >= 2 /\ \E i \in 1..(Len(name) - 1) : name[i] # ""

\* read_document: os.path.splitext(file_path)[1].lower() == '.docx'
Supported(name) == HasExt(name) /\ Lower(name[Len(name)]) = "docx"

\* glob.glob('input/*.docx'): fnmatch of the name (case folded off POSIX), and no
\* name starting with a dot
GlobMatch(name, posix) ==
    /\ Len(name) >= 2
    /\ name[1] # ""
    /\ (IF posix THEN name[Len(name)] ELSE Lower(name[Len(name)])) = "docx"

InputPath(name) == [dir |-> "input", name |-> name]

\* f"rephrased_{input_filename.split('.')[0]}_{timestamp}.docx" under 'output'
OutputPath(name, ts) ==
    [dir |-> "output", prefix |-> "rephrased", stem |-> <<name[1]>>,
     stamp |-> ts, ext |-> "docx"]

\* ------------------------------------------------------------ documents
FmtStyled ==
    [bold |-> Some(TRUE), italic |-> Some(FALSE), underline |-> Some(TRUE),
     name |-> Some("Arial"), size |-> Some(24), color |-> Some("FF0000")]
FmtPlain ==
    [bold |-> None, italic |-> None, underline |-> None,
     name |-> None, size |-> None, color |-> None]
FmtZero ==
    [bold |-> None, italic |-> Some(TRUE), underline |-> None,
     name |-> None, size |-> Some(0), color |-> Some("000000")]
Fmts == {FmtStyled, FmtZero}

\* paragraph.text: the runs' texts, concatenated
ParaText(para) == Concat([i \in 1..Len(para.runs) |-> para.runs[i].text])

\* paragraph.text.strip() is non-empty
NonBlank(para) == Strip(ParaText(para)) # <<>>

WordCount(run) == Len(Split(run.text))


\* ------------------------------------------------------------ rephrase_text
\* What the external model may do on one call: return a list whose first entry
\* carries the summary text, raise, or return a result of another shape.
OkReply(out) == [kind |-> "ok", out |-> out]
BadKinds == {"raise", "empty_list", "no_key", "not_str"}
BadReply(kind) == [kind |-> kind, out |-> <<>>]
Replies == {OkReply(s) : s \in Texts(MaxRespLen)} \cup {BadReply(k) : k \in BadKinds}
SampleReplies == {OkReply(<<"a">>), OkReply(<<" ", "a", "a", " ", "a">>), BadReply("raise")}

\* The length bounds rephrase_text hands to the model: int(n * 1.2), int(n * 0.8)
MaxLength(t) == (Len(Split(t)) * 12) \div 10
MinLength(t) == (Len(Split(t)) * 8) \div 10

\* rephrase_text without its try/except: a failure of the call leaves the function
rephrase_text_unguarded(t, r) ==
    IF Strip(t) = <<>> THEN [ret |-> t, called |-> FALSE, raised |-> FALSE]
    ELSE IF r.kind = "ok" THEN [ret |-> Strip(r.out), called |-> TRUE, raised |-> FALSE]
    ELSE [ret |-> t, called |-> TRUE, raised |-> TRUE]

\* rephrase_text returning text.strip() for a blank text
rephrase_text_strips(t, r) ==
    IF Strip(t) = <<>> THEN [ret |-> Strip(t), called |-> FALSE, raised |-> FALSE]
    ELSE IF r.kind = "ok" THEN [ret |-> Strip(r.out), called |-> TRUE, raised |-> FALSE]
    ELSE [ret |-> t, called |-> TRUE, raised |-> FALSE]

\* rephrase_text(text, rephraser), r being what the model does if it is called:
\* the value returned, whether the model was called, and whether an exception
\* leaves the function (the except clause catches every failure of the call)
rephrase_text(t, r) ==
    IF Strip(t) = <<>> THEN [ret |-> t, called |-> FALSE, raised |-> FALSE]
    ELSE IF r.kind = "ok" THEN [ret |-> Strip(r.out), called |-> TRUE, raised |-> FALSE]
    ELSE [ret |-> t, called |-> TRUE, raised |-> FALSE]

\* ------------------------------------------------------------ process_file
\* bool(run.font.size): a Length is an int
Truthy(size) == size # None /\ size[1] # 0

\* The formatting of a run made by add_run, before any attribute is set
DefaultFmt == FmtPlain

\* "Copy run formatting": the new run's attributes after the assignments
CopyFormatting(fmt) ==
    [bold      |-> fmt.bold,
     italic    |-> fmt.italic,
     underline |-> fmt.underline,
     name      |-> fmt.name,
     size      |-> IF Truthy(fmt.size) THEN fmt.size ELSE DefaultFmt.size,
     color     |-> IF fmt.color # None THEN fmt.color ELSE DefaultFmt.color]

\* The slice taken one word too long
RunWordsOffByOne(words, word_index, run) ==
    Slice(words, word_index, word_index + WordCount(run) + 1)

\* word_index never advanced
NextWordIndexStuck(word_index, run) == word_index

\* One pass of the run loop: the words of this run, and the new run
RunWords(words, word_index, run) == Slice(words, word_index, word_index + WordCount(run))
NextWordIndex(word_index, run) == word_index + WordCount(run)
NewRun(run, run_words) ==
    [text |-> Join(run_words) \o <<Space>>, fmt |-> CopyFormatting(run.fmt)]

RECURSIVE RunLoop(_, _, _, _, _)
\* for run in para.runs: ... , from run k on
RunLoop(runs, words, word_index, k, out) ==
    IF k > Len(runs) THEN out
    ELSE IF Slice(words, word_index, Len(words)) = <<>> THEN out
    ELSE RunLoop(runs, words, NextWordIndex(word_index, runs[k]), k + 1,
                 Append(out, NewRun(runs[k], RunWords(words, word_index, runs[k]))))

\* The runs added to the new paragraph for the rephrased text
Resegment(runs, rephrased_text) == RunLoop(runs, Split(rephrased_text), 0, 1, <<>>)

\* The new paragraph with its alignment left as add_paragraph() made it
NewParagraphUnaligned(para, runs) ==
    [style |-> para.style, alignment |-> None, runs |-> runs]

\* new_doc.add_paragraph() with the source's style and alignment, then its runs
NewParagraph(para, runs) ==
    [style |-> para.style, alignment |-> para.alignment, runs |-> runs]

\* [paragraph for paragraph in doc.paragraphs if paragraph.text.strip()]
NonBlankParagraphs(doc_paragraphs) == SelectSeq(doc_paragraphs, NonBlank)

Corrupt == [readable |-> FALSE, paragraphs |-> <<>>]
Readable(ps) == [readable |-> TRUE, paragraphs |-> ps]

\* read_document and the entry of process_file
ReadDocument ==
    /\ fpc = "entry"
    /\ IF ~Supported(path.name)
       THEN /\ result' = Some(FALSE)
            /\ fpc' = "ret"
            /\ UNCHANGED << opened, paragraphs, pidx, new_doc >>
       ELSE /\ opened' = Append(opened, path)
            /\ IF path.name \in DOMAIN fs /\ fs[path.name].readable
               THEN /\ paragraphs' = NonBlankParagraphs(fs[path.name].paragraphs)
                    /\ new_doc' = <<>>
                    /\ pidx' = 0
                    /\ fpc' = "paras"
                    /\ result' = None
               ELSE /\ result' = Some(FALSE)
                    /\ fpc' = "ret"
                    /\ UNCHANGED << paragraphs, pidx, new_doc >>
    /\ UNCHANGED << env, fs, rephraser, driverVars, path, saved, save_ok, clock, callVars >>

\* One pass of "for i, para in enumerate(paragraphs, 1)"; an exception in it
\* (one that left rephrase_text) ends process_file in its except clause
ProcessParagraph ==
    /\ fpc = "paras"
    /\ pidx < Len(paragraphs)
    /\ \E r \in rephraser :
        LET para == paragraphs[pidx + 1]
            res  == rephrase_text(ParaText(para), r)
        IN  IF ~NonBlank(para)
            THEN /\ pidx' = pidx + 1
                 /\ UNCHANGED << new_doc, callVars, fpc, result >>
            ELSE /\ text' = ParaText(para)
                 /\ reply' = IF res.called THEN Some(r) ELSE None
                 /\ escaped' = res.raised
                 /\ rephrased' = IF res.raised THEN rephrased ELSE res.ret
                 /\ invoked' = invoked + (IF res.called THEN 1 ELSE 0)
                 /\ IF res.raised
                    THEN /\ result' = Some(FALSE)
                         /\ fpc' = "ret"
                         /\ new_doc' = Append(new_doc, NewParagraph(para, <<>>))
                         /\ pidx' = pidx
                    ELSE /\ new_doc' = Append(new_doc,
                                    NewParagraph(para, Resegment(para.runs, res.ret)))
                         /\ pidx' = pidx + 1
                         /\ UNCHANGED << fpc, result >>
    /\ UNCHANGED << env, fs, rephraser, driverVars, path, opened, paragraphs,
                    saved, save_ok, clock >>

\* The timestamp, new_doc.save(output_path) and the return
SaveDocument ==
    /\ fpc = "paras"
    /\ pidx = Len(paragraphs)
    /\ \E ts \in clock..Min(clock + 1, MaxClock), io \in BOOLEAN :
        /\ clock' = ts
        /\ save_ok' = (env.output /\ io)
        /\ IF save_ok'
           THEN /\ saved' = Append(saved, [path |-> OutputPath(path.name, ts), doc |-> new_doc])
                /\ result' = Some(TRUE)
           ELSE /\ saved' = saved
                /\ result' = Some(FALSE)
    /\ fpc' = "ret"
    /\ UNCHANGED << env, fs, rephraser, driverVars, path, opened, paragraphs, pidx,
                    new_doc, callVars >>

\* ------------------------------------------------------------ process_documents
\* check_virtual_env: sys.exit(1) outside a virtual environment
CheckVirtualEnv ==
    /\ pc = "start"
    /\ pc' = IF env.venv THEN "import" ELSE "exited"
    /\ UNCHANGED << env, fs, rephraser, input_files, idx, successful, failed, calls,
                    returns, fpc, fileVars, callVars >>

\* from transformers import pipeline
ImportPipeline ==
    /\ pc = "import"
    /\ pc' = IF env.packages THEN "load" ELSE "returned"
    /\ UNCHANGED << env, fs, rephraser, input_files, idx, successful, failed, calls,
                    returns, fpc, fileVars, callVars >>

\* rephraser = pipeline("summarization", ...)
LoadModel ==
    /\ pc = "load"
    /\ rephraser' = SampleReplies
    /\ pc' = "inputdir"
    /\ UNCHANGED << env, fs, input_files, idx, successful, failed, calls, returns,
                    fpc, fileVars, callVars >>

\* The input directory is created, and the run ends, when it does not exist
CheckInputDir ==
    /\ pc = "inputdir"
    /\ IF env.input
       THEN pc' = "glob" /\ env' = env
       ELSE pc' = "returned" /\ env' = [env EXCEPT !.input = TRUE]
    /\ UNCHANGED << fs, rephraser, input_files, idx, successful, failed, calls,
                    returns, fpc, fileVars, callVars >>

\* The orders in which a directory listing may come
Orders(S) ==
    {s \in [1..Cardinality(S) -> S] : \A i, j \in 1..Cardinality(S) : s[i] = s[j] => i = j}

\* input_files = glob.glob(os.path.join(input_dir, '*.docx'))
Glob ==
    /\ pc = "glob"
    /\ \E order \in Orders({InputPath(n) : n \in {m \in DOMAIN fs : GlobMatch(m, env.posix)}}) :
        /\ input_files' = order
        /\ pc' = IF order = <<>> THEN "returned" ELSE "outdir"
    /\ UNCHANGED << env, fs, rephraser, idx, successful, failed, calls, returns,
                    fpc, fileVars, callVars >>

\* os.makedirs('output') when missing, and the counters
MakeOutputDir ==
    /\ pc = "outdir"
    /\ env' = [env EXCEPT !.output = TRUE]
    /\ successful' = 0
    /\ failed' = 0
    /\ pc' = "loop"
    /\ UNCHANGED << fs, rephraser, input_files, idx, calls, returns, fpc, fileVars, callVars >>

\* for input_file_path in input_files: process_file(input_file_path, rephraser)
CallProcessFile ==
    /\ pc = "loop"
    /\ idx < Len(input_files)
    /\ path' = input_files[idx + 1]
    /\ calls' = Append(calls, input_files[idx + 1])
    /\ result' = None
    /\ fpc' = "entry"
    /\ pc' = "infile"
    /\ UNCHANGED << env, fs, rephraser, input_files, idx, successful, failed, returns,
                    opened, paragraphs, pidx, new_doc, saved, save_ok, clock, callVars >>

\* The loop left at the first failed file
TallyBreaks ==
    /\ pc = "infile"
    /\ fpc = "ret"
    /\ IF result = Some(TRUE)
       THEN successful' = successful + 1 /\ failed' = failed /\ pc' = "loop"
       ELSE failed' = failed + 1 /\ successful' = successful /\ pc' = "done"
    /\ returns' = Append(returns, result)
    /\ idx' = idx + 1
    /\ fpc' = "idle"
    /\ UNCHANGED << env, fs, rephraser, input_files, calls, fileVars, callVars >>

\* The call returns: successful += 1 or failed += 1
Tally ==
    /\ pc = "infile"
    /\ fpc = "ret"
    /\ IF result = Some(TRUE)
       THEN successful' = successful + 1 /\ failed' = failed
       ELSE failed' = failed + 1 /\ successful' = successful
    /\ returns' = Append(returns, result)
    /\ idx' = idx + 1
    /\ fpc' = "idle"
    /\ pc' = "loop"
    /\ UNCHANGED << env, fs, rephraser, input_files, calls, fileVars, callVars >>

\* The loop is over: the summary is printed
Summary ==
    /\ pc = "loop"
    /\ idx = Len(input_files)
    /\ pc' = "done"
    /\ UNCHANGED << env, fs, rephraser, input_files, idx, successful, failed, calls,
                    returns, fpc, fileVars, callVars >>

\* A direct call rephrase_text(text, rephraser)
CallRephraseText ==
    /\ fpc = "rephrase"
    /\ \E r \in rephraser :
        LET res == rephrase_text(text, r)
        IN  /\ rephrased' = IF res.raised THEN rephrased ELSE res.ret
            /\ escaped' = res.raised
            /\ reply' = IF res.called THEN Some(r) ELSE None
            /\ invoked' = invoked + (IF res.called THEN 1 ELSE 0)
    /\ fpc' = "ret"
    /\ UNCHANGED << env, fs, rephraser, driverVars, fileVars, text >>

\* ------------------------------------------------------------ inputs
FileNames ==
    { <<"a", "docx">>, <<"b", "docx">>, <<"a", "b", "docx">>, <<"", "a", "docx">>,
      <<"a", "DOCX">>, <<"a", "txt">>, <<"a">> }

ParaBlank ==
    [style |-> "Normal", alignment |-> None, runs |-> << [text |-> <<Space>>, fmt |-> FmtPlain] >>]
ParaBody ==
    [style |-> "Normal", alignment |-> None,
     runs |-> << [text |-> <<"a", Space, "a">>, fmt |-> FmtPlain] >>]
ParaHead ==
    [style |-> "Heading 1", alignment |-> Some("CENTER"),
     runs |-> << [text |-> <<"a">>, fmt |-> FmtStyled], [text |-> <<Space, "a">>, fmt |-> FmtZero] >>]
SampleParas == {ParaBlank, ParaBody, ParaHead}

\* Documents of up to MaxParas paragraphs, blank ones among them
FileDocs == UNION {[1..k -> SampleParas] : k \in 0..MaxParas}

\* The ways to cut a text of up to MaxTextLen characters into up to MaxRuns runs
TextSplits ==
    {ts \in UNION {[1..n -> Texts(MaxTextLen)] : n \in 0..MaxRuns} : Len(Concat(ts)) <= MaxTextLen}

\* Every paragraph within the bounds, each run with any of the formats
RichParagraphs ==
    UNION { { [style |-> "Normal", alignment |-> None,
               runs |-> [i \in 1..Len(ts) |-> [text |-> ts[i], fmt |-> f[i]]]]
              : f \in [1..Len(ts) -> Fmts] } : ts \in TextSplits }

BatchContents == {Corrupt, Readable(<<>>), Readable(<<ParaBody>>)}

Insensitive(name) == [i \in 1..Len(name) |-> Lower(name[i])]

\* The input directories: off POSIX no two names differ in case only
Dirs(e) ==
    IF ~e.input THEN {<<>>}
    ELSE UNION { [names -> BatchContents] :
                 names \in {d \in SUBSET FileNames :
                              /\ Cardinality(d) <= MaxFiles
                              /\ e.posix \/ \A m, n \in d : Insensitive(m) = Insensitive(n) => m = n} }

Envs == [venv : BOOLEAN, packages : BOOLEAN, input : BOOLEAN, output : BOOLEAN, posix : BOOLEAN]
DirectEnv == [venv |-> TRUE, packages |-> TRUE, input |-> TRUE, output |-> TRUE, posix |-> TRUE]

InitIdle ==
    /\ input_files = <<>>
    /\ idx = 0
    /\ successful = 0
    /\ failed = 0
    /\ calls = <<>>
    /\ returns = <<>>
    /\ opened = <<>>
    /\ paragraphs = <<>>
    /\ pidx = 0
    /\ new_doc = <<>>
    /\ result = None
    /\ saved = <<>>
    /\ save_ok = FALSE
    /\ clock = 0
    /\ reply = None
    /\ rephrased = <<>>
    /\ escaped = FALSE
    /\ invoked = 0

\* python doc_rephraser.py
Init ==
    /\ env \in Envs
    /\ fs \in Dirs(env)
    /\ pc = "start"
    /\ fpc = "idle"
    /\ path = InputPath(<<>>)
    /\ rephraser = {}
    /\ text = <<>>
    /\ InitIdle

Next ==
    \/ CheckVirtualEnv
    \/ ImportPipeline
    \/ LoadModel
    \/ CheckInputDir
    \/ Glob
    \/ MakeOutputDir
    \/ CallProcessFile
    \/ ReadDocument
    \/ ProcessParagraph
    \/ SaveDocument
    \/ Tally
    \/ Summary

Spec == Init /\ [][Next]_vars


\* process_file(path, rephraser) called for one file of sample paragraphs
InitFile ==
    /\ env = DirectEnv
    /\ \E name \in FileNames, content \in {Corrupt} \cup {Readable(d) : d \in FileDocs} :
        /\ fs = (name :> content)
        /\ path = InputPath(name)
    /\ pc = "direct"
    /\ fpc = "entry"
    /\ InitIdle
    /\ text = <<>>
    /\ rephraser = SampleReplies

NextFile ==
    \/ ReadDocument
    \/ ProcessParagraph
    \/ SaveDocument

SpecFile == InitFile /\ [][NextFile]_vars

\* process_file called for a document of one paragraph, any paragraph within the
\* bounds, with a model that may return any text within the bounds
InitParagraph ==
    /\ env = DirectEnv
    /\ \E para \in RichParagraphs :
        fs = (<<"a", "docx">> :> Readable(<<para>>))
    /\ path = InputPath(<<"a", "docx">>)
    /\ pc = "direct"
    /\ fpc = "entry"
    /\ InitIdle
    /\ text = <<>>
    /\ rephraser = Replies

SpecParagraph == InitParagraph /\ [][NextFile]_vars

\* rephrase_text called with any text within the bounds
InitAdapter ==
    /\ env = DirectEnv
    /\ fs = <<>>
    /\ path = InputPath(<<>>)
    /\ pc = "direct"
    /\ fpc = "rephrase"
    /\ InitIdle
    /\ text \in Texts(MaxTextLen)
    /\ rephraser = Replies

NextAdapter == CallRephraseText

SpecAdapter == InitAdapter /\ [][NextAdapter]_vars


\* ------------------------------------------------------------ properties
\* The paragraph process_file handled last, the paragraph it made of it, and the
\* words of the text rephrase_text returned for it
SourceRuns == paragraphs[pidx].runs
OutputRuns == new_doc[pidx].runs
P == Split(rephrased)
ParagraphDone == fpc \in {"paras", "ret"} /\ pidx >= 1 /\ Len(new_doc) >= pidx

\* The words of runs 1..i, run by run, and their number
WordsUpTo(runs, i) == Concat([j \in 1..i |-> Split(runs[j].text)])
Cum(runs, i) == Len(WordsUpTo(runs, i))
Populated(runs) == Cardinality({i \in 1..Len(runs) : Split(runs[i].text) # <<>>})
LastPopulated(runs) ==
    CHOOSE i \in 1..Len(runs) :
        /\ Split(runs[i].text) # <<>>
        /\ \A j \in (i + 1)..Len(runs) : Split(runs[j].text) = <<>>

\* A text with a character that is not whitespace
HasInk(para) ==
    \E i \in 1..Len(para.runs) : \E j \in 1..Len(para.runs[i].text) :
        para.runs[i].text[j] # Space
AllSpaces(t) == \A i \in 1..Len(t) : t[i] = Space

\* The model answered with a text / failed
Answered == reply # None /\ reply[1].kind = "ok"
ModelFailed == reply # None /\ reply[1].kind \in BadKinds

\* C1: a document whose only paragraph is one run, the model returning a text of
\* at least one word: process_file succeeds (the save going through) and the
\* output is one paragraph of one run, its text all the words of the returned
\* text joined by single spaces plus one trailing space, its formatting the
\* source run's. (Stated for the runs whose font size is not 0: what becomes of
\* a size of 0 is C10's matter.)
C1_SingleRunEndToEnd ==
    (/\ fpc = "ret"
     /\ Len(paragraphs) = 1
     /\ Len(paragraphs[1].runs) = 1
     /\ paragraphs[1].runs[1].fmt.size # Some(0)
     /\ Answered
     /\ Split(reply[1].out) # <<>>
     /\ save_ok)
    => /\ result = Some(TRUE)
       /\ Len(saved) = 1
       /\ Len(saved[1].doc) = 1
       /\ Len(saved[1].doc[1].runs) = 1
       /\ saved[1].doc[1].runs[1].text = Join(Split(reply[1].out)) \o <<Space>>
       /\ saved[1].doc[1].runs[1].fmt = paragraphs[1].runs[1].fmt

\* The model returned the paragraph's text as it is
IdentityReply == reply = Some(OkReply(text))

\* Every run boundary of the paragraph falls between two words
WordAligned(runs) == Split(Concat([i \in 1..Len(runs) |-> runs[i].text])) = WordsUpTo(runs, Len(runs))

RoundTrip ==
    /\ Len(OutputRuns) = Len(SourceRuns)
    /\ \A i \in 1..Len(SourceRuns) : Split(OutputRuns[i].text) = Split(SourceRuns[i].text)

\* C2 as stated: the model returning the text unchanged, every paragraph comes out
\* with as many runs as it had, run i holding the words of the original run i.
C2_RoundTripAnyParagraph ==
    (ParagraphDone /\ IdentityReply) => RoundTrip

\* C2, amended: the same for the paragraphs whose run boundaries all fall between
\* words and whose last run holds at least one word.
C2_RoundTripAligned ==
    (/\ ParagraphDone
     /\ IdentityReply
     /\ WordAligned(SourceRuns)
     /\ Split(SourceRuns[Len(SourceRuns)].text) # <<>>)
    => RoundTrip

C2_Witness ==
    /\ fpc = "ret"
    /\ save_ok
    /\ IdentityReply
    /\ Len(SourceRuns) = 2
    /\ WordAligned(SourceRuns)
    /\ Split(SourceRuns[1].text) = << <<"a", "a">> >>
    /\ Split(SourceRuns[2].text) = << <<"a">> >>
    /\ RoundTrip

Shortfall == Len(P) < Cum(SourceRuns, Len(SourceRuns))

\* C3 as stated: fewer words than the runs count, then no error and strictly
\* fewer output runs that hold a word than original runs that hold one.
C3_ShortfallStrictlyFewer ==
    (ParagraphDone /\ Shortfall)
    => /\ ~escaped
       /\ Populated(OutputRuns) < Populated(SourceRuns)

\* C3, amended: no error and not more word-holding output runs than word-holding
\* original runs; strictly fewer exactly when the number of missing words is at
\* least the word count of the last word-holding original run.
C3_ShortfallNotMore ==
    (ParagraphDone /\ Shortfall)
    => /\ ~escaped
       /\ Populated(OutputRuns) <= Populated(SourceRuns)
       /\ (Populated(OutputRuns) < Populated(SourceRuns))
            <=> (Cum(SourceRuns, Len(SourceRuns)) - Len(P)
                   >= Len(Split(SourceRuns[LastPopulated(SourceRuns)].text)))

C3_Witness ==
    /\ fpc = "ret"
    /\ save_ok
    /\ Answered
    /\ Shortfall
    /\ Len(SourceRuns) = 2
    /\ Populated(SourceRuns) = 2
    /\ Populated(OutputRuns) = 2
    /\ Len(P) = 2

\* C4: whenever the call of the external model fails (it raises, or its result has
\* not the expected shape), rephrase_text returns its argument, nothing escapes
\* it, and the paragraph is written with the words of the original text.
C4_FallbackOnFailure ==
    ModelFailed
    => /\ ~escaped
       /\ rephrased = text
       /\ ParagraphDone
       /\ WordsUpTo(OutputRuns, Len(OutputRuns)) = Split(text)
       /\ (fpc = "ret" => result = Some(save_ok))
       /\ (fpc = "ret" /\ save_ok => saved[Len(saved)].doc[pidx].runs = OutputRuns)

C4_Witness ==
    /\ fpc = "ret"
    /\ result = Some(TRUE)
    /\ reply = Some(BadReply("no_key"))
    /\ text = <<"a", "a", Space, "a">>
    /\ Len(SourceRuns) = 2
    /\ WordsUpTo(saved[1].doc[1].runs, 2) = << <<"a", "a">>, <<"a">> >>

\* C5: for an empty or whitespace-only text rephrase_text returns exactly that
\* text and does not call the external model.
C5_BlankIdentity ==
    (fpc = "ret" /\ AllSpaces(text))
    => /\ rephrased = text
       /\ reply = None
       /\ invoked = 0
       /\ ~escaped

C5_Witness ==
    /\ fpc = "ret"
    /\ text = <<Space, Space>>
    /\ rephrased = <<Space, Space>>
    /\ invoked = 0

Failures(rs) == Cardinality({i \in 1..Len(rs) : rs[i] # Some(TRUE)})

\* C6: once the loop over the enumerated files has begun it is never left early:
\* process_file is called on the enumerated files in order, one call returning
\* before the next is made, and at the end every file was passed exactly once,
\* successful + failed is their number and failed the number of failed calls.
C6_BatchNeverAborts ==
    /\ Len(returns) <= Len(calls)
    /\ Len(calls) <= Len(returns) + 1
    /\ Len(calls) <= Len(input_files)
    /\ calls = SubSeq(input_files, 1, Len(calls))
    /\ (Len(calls) > 0 => pc \in {"loop", "infile", "done"})
    /\ (pc = "infile" <=> Len(calls) = Len(returns) + 1)
    /\ (pc \in {"loop", "infile", "done"}
          => /\ successful + failed = Len(returns)
             /\ failed = Failures(returns))
    /\ (pc = "done"
          => /\ calls = input_files
             /\ successful + failed = Len(input_files)
             /\ \A i, j \in 1..Len(calls) : calls[i] = calls[j] => i = j)

C6_Witness ==
    /\ pc = "done"
    /\ Len(input_files) = 3
    /\ returns = << Some(FALSE), Some(TRUE), Some(FALSE) >>
    /\ opened = input_files
    /\ save_ok = FALSE
    /\ successful = 1
    /\ failed = 2

SupportedFiles == {InputPath(n) : n \in {m \in DOMAIN fs : Supported(m)}}
Range(seq) == {seq[i] : i \in 1..Len(seq)}

\* C7: the files passed to process_file are exactly the files of the input
\* directory with the supported extension; a file with another extension is never
\* opened and counts neither as a success nor as a failure.
C7_ExactlySupportedFiles ==
    pc = "done"
    => /\ Range(calls) = SupportedFiles
       /\ Range(opened) \subseteq SupportedFiles
       /\ successful + failed = Cardinality(SupportedFiles)

\* The non-blank paragraphs of the document in the file process_file was called on
SourceDoc == SelectSeq(fs[path.name].paragraphs, HasInk)
Opens == Supported(path.name) /\ path.name \in DOMAIN fs /\ fs[path.name].readable

Corresponds ==
    /\ result = Some(TRUE)
    /\ Len(saved) = 1
    /\ Len(saved[1].doc) = Len(SourceDoc)
    /\ \A i \in 1..Len(SourceDoc) :
        /\ saved[1].doc[i].style = SourceDoc[i].style
        /\ saved[1].doc[i].alignment = SourceDoc[i].alignment

Root(name) == IF HasExt(name) THEN SubSeq(name, 1, Len(name) - 1) ELSE name

\* C9: the output is saved in the output directory as
\* rephrased_<B>_<timestamp>.docx, B being the input file's name without its
\* extension (with every dot before the extension kept).
C9_OutputName ==
    (fpc = "ret" /\ save_ok)
    => /\ saved[Len(saved)].path.dir = "output"
       /\ saved[Len(saved)].path.prefix = "rephrased"
       /\ saved[Len(saved)].path.stem = Root(path.name)
       /\ saved[Len(saved)].path.stamp = clock
       /\ saved[Len(saved)].path.ext = "docx"

\* The runs the loop reaches with words of P left: a prefix of the runs
Reached(runs, words) == {i \in 1..Len(runs) : Cum(runs, i - 1) < Len(words)}

\* C10: the output runs are, in order, the original runs the loop reaches with
\* words of P left; output run i holds the words of P from the word count of the
\* runs before it up to that of the runs through it (cut at the end of P), joined
\* by single spaces with one trailing space, and has the formatting of run i.
C10_PerRunConsumption ==
    ParagraphDone
    => /\ Len(OutputRuns) = Cardinality(Reached(SourceRuns, P))
       /\ \A i \in 1..Len(OutputRuns) :
            /\ i \in Reached(SourceRuns, P)
            /\ OutputRuns[i].text =
                 Join(SubSeq(P, Cum(SourceRuns, i - 1) + 1,
                             Min(Cum(SourceRuns, i), Len(P)))) \o <<Space>>
            /\ OutputRuns[i].fmt = SourceRuns[i].fmt

\* What holds of C10: all of it but the formatting of a run whose font size is 0,
\* which comes out with no font size.
C10_ExceptZeroSize ==
    ParagraphDone
    => /\ Len(OutputRuns) = Cardinality(Reached(SourceRuns, P))
       /\ \A i \in 1..Len(OutputRuns) :
            /\ i \in Reached(SourceRuns, P)
            /\ OutputRuns[i].text =
                 Join(SubSeq(P, Cum(SourceRuns, i - 1) + 1,
                             Min(Cum(SourceRuns, i), Len(P)))) \o <<Space>>
            /\ OutputRuns[i].fmt = [SourceRuns[i].fmt EXCEPT
                                      !.size = IF @ = Some(0) THEN None ELSE @]

====
